---- MODULE Spec2Model ----
(***************************************************************************)
(* Model of converter_gif.py: the interactive WEBM -> GIF converter.       *)
(* main() collects the parameters through modal dialogs, make_gif_im()     *)
(* runs the three external stages inside a temporary directory, and main() *)
(* reports the result.                                                     *)
(*                                                                         *)
(* Text (str) is a sequence of one-token strings; a character is a token   *)
(* of length one.  An optional value (None or v) is <<>> or <<v>>.         *)
(***************************************************************************)
EXTENDS Integers, Sequences, FiniteSets, TLC

VARIABLES
  onPath,      \* the ImageMagick names shutil.which can resolve
  pc,          \* position of the run in main / make_gif_im
  dialogs,     \* the dialogs shown so far, in order
  aborted,     \* which early return of main was taken ("none" if none)
  val,         \* ask_number: the askstring result of the latest pass
  tries,       \* ask_number: invalid answers given in the current call
  in_path, out_path, fps, max_w,
  ffmpeg, im, vf, delay_cs,
  tdExists,    \* the temporary directory exists
  tdFiles,     \* files in the temporary directory
  tdCreated,   \* a temporary directory was created in this run
  spawned,     \* the external processes started so far, with their results
  outWritten,  \* out_path was written
  exc          \* the exception propagating, if any

vars == <<onPath, pc, dialogs, aborted, val, tries, in_path, out_path, fps,
          max_w, ffmpeg, im, vf, delay_cs, tdExists, tdFiles, tdCreated, spawned,
          outWritten, exc>>

(* ---------------------------- bounds ----------------------------------- *)

\* invalid answers the user gives to one ask_number call before a valid one
MaxRetries == 1

(* ---------------------------- str helpers ------------------------------ *)

None == <<>>

Some(v) == <<v>>

Whitespace == {" ", "\n", "\t"}

Digits == {"0", "1", "2", "3", "4", "5", "6", "7", "8", "9"}

DigitVal(c) ==
  CASE c = "0" -> 0 [] c = "1" -> 1 [] c = "2" -> 2 [] c = "3" -> 3
    [] c = "4" -> 4 [] c = "5" -> 5 [] c = "6" -> 6 [] c = "7" -> 7
    [] c = "8" -> 8 [] c = "9" -> 9

RECURSIVE LStrip(_)
LStrip(s) ==
  IF s # <<>> /\ Head(s) \in Whitespace THEN LStrip(Tail(s)) ELSE s

RECURSIVE RStrip(_)
RStrip(s) ==
  IF s # <<>> /\ s[Len(s)] \in Whitespace
  THEN RStrip(SubSeq(s, 1, Len(s) - 1)) ELSE s

\* str.strip()
Strip(s) == RStrip(LStrip(s))

RECURSIVE DigitsVal(_, _)
DigitsVal(s, acc) ==
  IF s = <<>> THEN acc ELSE DigitsVal(Tail(s), 10 * acc + DigitVal(Head(s)))

\* int(str) on the answers used here: optional sign followed by one or more
\* decimal digits, surrounding whitespace ignored; anything else is a
\* ValueError (None here)
PyInt(s) ==
  LET t == Strip(s)
      neg == t # <<>> /\ Head(t) = "-"
      signed == t # <<>> /\ Head(t) \in {"-", "+"}
      d == IF signed THEN Tail(t) ELSE t
  IN IF d # <<>> /\ \A i \in 1..Len(d) : d[i] \in Digits
     THEN Some(IF neg THEN 0 - DigitsVal(d, 0) ELSE DigitsVal(d, 0))
     ELSE None

\* str(int) for the non-negative program constants shown in messages
RECURSIVE PyStr(_)
PyStr(n) ==
  LET c == CASE n % 10 = 0 -> "0" [] n % 10 = 1 -> "1" [] n % 10 = 2 -> "2"
             [] n % 10 = 3 -> "3" [] n % 10 = 4 -> "4" [] n % 10 = 5 -> "5"
             [] n % 10 = 6 -> "6" [] n % 10 = 7 -> "7" [] n % 10 = 8 -> "8"
             [] n % 10 = 9 -> "9"
  IN IF n < 10 THEN <<c>> ELSE PyStr(n \div 10) \o <<c>>

\* truth value of an optional integer (None and 0 are false)
Truthy(o) == o # None /\ o[1] # 0

Dialog(kind, title, text) == [kind |-> kind, title |-> title, text |-> text]

RECURSIVE Join(_, _)
\* sep.join(parts)
Join(sep, parts) ==
  IF parts = <<>> THEN <<>>
  ELSE IF Len(parts) = 1 THEN parts[1]
  ELSE parts[1] \o sep \o Join(sep, Tail(parts))

\* str.lower() on the tokens that occur in the chosen paths
Lower(s) == [i \in 1..Len(s) |-> IF s[i] = ".WEBM" THEN ".webm" ELSE s[i]]

EndsWith(s, suffix) ==
  Len(s) >= Len(suffix) /\ SubSeq(s, Len(s) - Len(suffix) + 1, Len(s)) = suffix

\* a path is <<directory, name, extension>>
Dirname(p) == SubSeq(p, 1, Len(p) - 2)

Basename(p) == SubSeq(p, Len(p) - 1, Len(p))

\* os.path.splitext(p)[0] for a path whose last token is its extension
SplitExtRoot(p) ==
  IF p # <<>> /\ p[Len(p)] \in {".webm", ".WEBM", ".mp4", ".gif"}
  THEN SubSeq(p, 1, Len(p) - 1) ELSE p

(* ---------------------------- inputs ----------------------------------- *)

\* what the user can type into a simpledialog.askstring prompt
AnswerTexts ==
  { <<>>, <<" ">>, <<"1">>, <<" ", "1", "5">>, <<"6", "0", " ">>, <<"0">>,
    <<"6", "1">>, <<"3", "1">>, <<"4", "8", "0">>, <<"4", "0", "9", "7">>,
    <<"-", "5">>, <<"a", "b">>, <<"7", ".", "5">> }

\* askstring result: cancelled (None) or the typed text
Answers ==
  {[cancelled |-> TRUE, text |-> <<>>]}
    \cup {[cancelled |-> FALSE, text |-> t] : t \in AnswerTexts}

\* files the open-file chooser can return (empty = cancelled)
InPaths ==
  { <<"/v/", "clip", ".webm">>, <<"/v/", "CLIP", ".WEBM">>,
    <<"/v/", "clip", ".mp4">> }

\* paths the save-file chooser can return (empty = cancelled)
OutPaths == { <<"/g/", "out", ".gif">> }

\* captured standard error of a failed stage
StderrTexts == { <<>>, <<"\n">>, <<" ", "e", "r", "r", "\n">> }

\* frames a stage-1 run may leave in the temporary directory
MaxFrames == 1

(* ---------------------------- ask_number ------------------------------- *)

DEFAULT_FPS == 15

FPS_MIN == 1

FPS_MAX == 60

WIDTH_MIN == 32

WIDTH_MAX == 4096

OutOfRangeUpperOnly(num, minval, maxval) == num > maxval

\* the range test of ask_number
OutOfRange(num, minval, maxval) == num < minval \/ num > maxval

\* one pass through the while-loop of ask_number(integer=True):
\* done = the function returns, value = what it returns,
\* shown = the dialogs of this pass
AskNumberPass(title, ans, minval, maxval) ==
  LET prompt == Dialog("askstring", title, <<>>)
      stripped == Strip(ans.text)
      num == PyInt(stripped)
  IN IF ans.cancelled
     THEN [done |-> TRUE, value |-> None, shown |-> <<prompt>>]
     ELSE IF stripped = <<>>
     THEN [done |-> TRUE, value |-> None, shown |-> <<prompt>>]
     ELSE IF num = None
     THEN [done |-> FALSE, value |-> None,
           shown |-> <<prompt,
                       Dialog("showerror", title,
                              <<"Please enter a valid number.">>)>>]
     ELSE IF OutOfRange(num[1], minval, maxval)
     THEN [done |-> FALSE, value |-> None,
           shown |-> <<prompt,
                       Dialog("showerror", title,
                              <<"Enter a value between ">> \o PyStr(minval)
                                \o <<" and ">> \o PyStr(maxval) \o <<".">>)>>]
     ELSE [done |-> TRUE, value |-> num, shown |-> <<prompt>>]

(* ---------------------------- make_gif_im helpers ---------------------- *)

FindLegacyFirst(path) ==
  IF "convert" \in path THEN Some("convert")
  ELSE IF "magick" \in path THEN Some("magick")
  ELSE None

\* _find_imagemagick(): path = the names shutil.which can resolve
FindImagemagick(path) ==
  IF "magick" \in path THEN Some("magick")
  ELSE IF "convert" \in path THEN Some("convert")
  ELSE None

ScaleClause(w) ==
  <<"scale=if(gt(iw\\,">> \o PyStr(w) \o <<"\\,">> \o PyStr(w)
    \o <<"\\,iw):-1:flags=lanczos">>

BuildFiltersScaleLast(f, w) ==
  Join(<<",">>,
       <<<<"fps=">> \o PyStr(f), <<"format=rgba">>>>
         \o (IF Truthy(w) THEN <<ScaleClause(w[1])>> ELSE <<>>))

\* the filter chain vf of make_gif_im
BuildFilters(f, w) ==
  Join(<<",">>,
       <<<<"fps=">> \o PyStr(f)>>
         \o (IF Truthy(w) THEN <<ScaleClause(w[1])>> ELSE <<>>)
         \o <<<<"format=rgba">>>>)

\* round() of Python 3 on n/d, d > 0: nearest integer, ties to even
PyRoundDiv(n, d) ==
  LET q == n \div d
      r == n % d
  IN IF 2 * r < d THEN q
     ELSE IF 2 * r > d THEN q + 1
     ELSE IF q % 2 = 0 THEN q ELSE q + 1

Max(a, b) == IF a >= b THEN a ELSE b

DelayTruncated(f) == Max(1, 100 \div f)

\* delay_cs = max(1, round(100 / float(fps)))
DelayCs(f) == Max(1, PyRoundDiv(100, f))

CheckIgnored(rc) == FALSE

\* subprocess.run(check=True): a non-zero exit status raises CalledProcessError
CheckRaises(rc) == rc # 0

\* str(CalledProcessError)
CalledProcessErrorStr(stage, rc) ==
  <<"Command ", stage, " returned non-zero exit status ">> \o PyStr(rc)
    \o <<".">>

CalledProcessError(stage, rc, stderr) ==
  [type |-> "CalledProcessError", stderr |-> stderr,
   msg |-> CalledProcessErrorStr(stage, rc)]

RuntimeError(msg) == [type |-> "RuntimeError", stderr |-> <<>>, msg |-> msg]

OSError(msg) == [type |-> "OSError", stderr |-> <<>>, msg |-> msg]

\* the text main puts after "Conversion failed:" in the Error dialog
ErrorMessage(e) ==
  IF e.type = "CalledProcessError"
  THEN IF e.stderr # <<>> THEN Strip(e.stderr) ELSE e.msg
  ELSE e.msg

Cmd(stage, exe, input, filter, out, delay, rc, stderr) ==
  [stage |-> stage, exe |-> exe, input |-> input, vf |-> filter, out |-> out,
   delay |-> delay, rc |-> rc, stderr |-> stderr]

NeverEmpty(path) == FALSE

\* `not in_path` / `not out_path`: the chooser was cancelled
NotPath(path) == path = <<>>

CleanupOnSuccessOnly(e) == e = None

\* leaving the `with tempfile.TemporaryDirectory()` block removes the
\* directory whether or not an exception is propagating
CleanupOnExit(e) == TRUE

CatchesNothing(e) == FALSE

\* `except Exception: pass` around the open-folder step
InnerExceptCatches(e) ==
  e.type \in {"OSError", "RuntimeError", "CalledProcessError"}

(* ---------------------------- state ------------------------------------ *)

NoAnswer == [cancelled |-> TRUE, text |-> <<>>]

Init ==
  /\ onPath \in SUBSET {"magick", "convert"}
  /\ val = NoAnswer
  /\ ffmpeg = None
  /\ pc = "intro"
  /\ dialogs = <<>>
  /\ aborted = "none"
  /\ tries = 0
  /\ in_path = <<>>
  /\ out_path = <<>>
  /\ fps = None
  /\ max_w = None
  /\ im = None
  /\ vf = <<>>
  /\ delay_cs = 0
  /\ tdExists = FALSE
  /\ tdFiles = {}
  /\ tdCreated = FALSE
  /\ spawned = <<>>
  /\ outWritten = FALSE
  /\ exc = None

Show(d) == dialogs' = Append(dialogs, d)

(* ---------------------------- main: parameters ------------------------- *)

\* main, lines 135-138
ShowIntro ==
  /\ pc = "intro"
  /\ Show(Dialog("showinfo", "WEBM -> GIF",
                 <<"Select a .webm video to convert to GIF.">>))
  /\ pc' = "pick_input"
  /\ UNCHANGED <<onPath, ffmpeg, val, aborted, tries, in_path, out_path, fps,
                 max_w, im, vf, delay_cs, tdExists, tdFiles, tdCreated,
                 spawned, outWritten, exc>>

\* main, lines 141-151: the open-file chooser and the two tests on its result
PickInput ==
  /\ pc = "pick_input"
  /\ \E p \in InPaths \cup {<<>>} :
       /\ in_path' = p
       /\ Show(Dialog("askopenfilename", "Select a WEBM file", <<>>))
       /\ IF NotPath(p)
          THEN pc' = "end" /\ aborted' = "input"
          ELSE /\ aborted' = aborted
               /\ pc' = IF EndsWith(Lower(p), <<".webm">>)
                        THEN "pick_output" ELSE "confirm"
  /\ UNCHANGED <<onPath, ffmpeg, val, tries, out_path, fps, max_w, im, vf,
                 delay_cs, tdExists, tdFiles, tdCreated, spawned, outWritten,
                 exc>>

\* main, lines 152-155
ConfirmNotWebm ==
  /\ pc = "confirm"
  /\ Show(Dialog("askyesno", "Continue?",
                 <<"Selected file is not .webm. Continue anyway?">>))
  /\ \E yes \in BOOLEAN :
       IF yes THEN pc' = "pick_output" /\ aborted' = aborted
       ELSE pc' = "end" /\ aborted' = "confirm"
  /\ UNCHANGED <<onPath, ffmpeg, val, tries, in_path, out_path, fps, max_w,
                 im, vf, delay_cs, tdExists, tdFiles, tdCreated, spawned,
                 outWritten, exc>>

\* main, lines 158-168
PickOutput ==
  /\ pc = "pick_output"
  /\ Show(Dialog("asksaveasfilename", "Save GIF as...",
                 SplitExtRoot(Basename(in_path)) \o <<".gif">>))
  /\ \E p \in OutPaths \cup {<<>>} :
       /\ out_path' = p
       /\ IF NotPath(p)
          THEN pc' = "end" /\ aborted' = "output"
          ELSE pc' = "ask_fps" /\ aborted' = aborted
  /\ tries' = 0
  /\ UNCHANGED <<onPath, ffmpeg, val, in_path, fps, max_w, im, vf, delay_cs,
                 tdExists, tdFiles, tdCreated, spawned, outWritten, exc>>

\* main, lines 171-180: one pass of ask_number for the fps, and the default
AskFps ==
  /\ pc = "ask_fps"
  /\ \E ans \in Answers :
       LET r == AskNumberPass("Frames per Second", ans, FPS_MIN, FPS_MAX)
       IN /\ r.done \/ tries < MaxRetries
          /\ val' = ans
          /\ dialogs' = dialogs \o r.shown
          /\ IF r.done
             THEN /\ fps' = IF r.value = None THEN Some(DEFAULT_FPS)
                            ELSE r.value
                  /\ pc' = "ask_width"
                  /\ tries' = 0
             ELSE /\ tries' = tries + 1
                  /\ UNCHANGED <<fps, pc>>
  /\ UNCHANGED <<onPath, ffmpeg, aborted, in_path, out_path, max_w, im, vf,
                 delay_cs, tdExists, tdFiles, tdCreated, spawned, outWritten,
                 exc>>

\* main, lines 182-189: one pass of ask_number for the max width
AskWidth ==
  /\ pc = "ask_width"
  /\ \E ans \in Answers :
       LET r == AskNumberPass("Max Width (optional)", ans, WIDTH_MIN,
                              WIDTH_MAX)
       IN /\ r.done \/ tries < MaxRetries
          /\ val' = ans
          /\ dialogs' = dialogs \o r.shown
          /\ IF r.done
             THEN /\ max_w' = r.value
                  /\ pc' = "converting"
                  /\ tries' = 0
             ELSE /\ tries' = tries + 1
                  /\ UNCHANGED <<max_w, pc>>
  /\ UNCHANGED <<onPath, ffmpeg, aborted, in_path, out_path, fps, im, vf,
                 delay_cs, tdExists, tdFiles, tdCreated, spawned, outWritten,
                 exc>>

\* main, lines 193-195
ShowConverting ==
  /\ pc = "converting"
  /\ Show(Dialog("showinfo", "Converting",
                 <<"Conversion started. This may take a little while.">>))
  /\ pc' = "get_ffmpeg"
  /\ val' = NoAnswer
  /\ UNCHANGED <<onPath, ffmpeg, aborted, tries, in_path, out_path, fps,
                 max_w, im, vf, delay_cs, tdExists, tdFiles, tdCreated,
                 spawned, outWritten, exc>>

(* ---------------------------- make_gif_im ------------------------------ *)

FramesPat == <<"td/", "f_%06d", ".png">>

FramesGlob == <<"td/", "f_*", ".png">>

PalettePath == <<"td/", "palette", ".png">>

FrameFile(i) == [kind |-> "frame", n |-> i]

PaletteFile == [kind |-> "palette", n |-> 0]

\* make_gif_im, line 73: imageio_ffmpeg.get_ffmpeg_exe() returns the path of
\* an ffmpeg binary or raises RuntimeError when it finds none
GetFfmpeg ==
  /\ pc = "get_ffmpeg"
  /\ \E found \in BOOLEAN :
       IF found
       THEN pc' = "find_im" /\ exc' = exc /\ ffmpeg' = Some("ffmpeg")
       ELSE /\ pc' = "except"
            /\ ffmpeg' = ffmpeg
            /\ exc' = Some(RuntimeError(<<"No ffmpeg exe could be found.">>))
  /\ UNCHANGED <<onPath, val, dialogs, aborted, tries, in_path, out_path,
                 fps, max_w, im, vf, delay_cs, tdExists, tdFiles, tdCreated,
                 spawned, outWritten>>

\* make_gif_im, lines 74-78
FindIm ==
  /\ pc = "find_im"
  /\ im' = FindImagemagick(onPath)
  /\ IF FindImagemagick(onPath) = None
     THEN /\ pc' = "except"
          /\ exc' = Some(RuntimeError(<<"ImageMagick not found.">>))
     ELSE pc' = "build" /\ exc' = exc
  /\ UNCHANGED <<onPath, ffmpeg, val, dialogs, aborted, tries, in_path,
                 out_path, fps, max_w, vf, delay_cs, tdExists, tdFiles,
                 tdCreated, spawned, outWritten>>

\* make_gif_im, lines 82-93: the filter chain and the frame delay
BuildArgs ==
  /\ pc = "build"
  /\ vf' = BuildFilters(fps[1], max_w)
  /\ delay_cs' = DelayCs(fps[1])
  /\ pc' = "mkdtemp"
  /\ UNCHANGED <<onPath, ffmpeg, val, dialogs, aborted, tries, in_path,
                 out_path, fps, max_w, im, tdExists, tdFiles, tdCreated,
                 spawned, outWritten, exc>>

\* make_gif_im, line 100: entering the with-block creates the directory
EnterTempDir ==
  /\ pc = "mkdtemp"
  /\ tdExists' = TRUE
  /\ tdCreated' = TRUE
  /\ tdFiles' = {}
  /\ pc' = "extract"
  /\ UNCHANGED <<onPath, ffmpeg, val, dialogs, aborted, tries, in_path,
                 out_path, fps, max_w, im, vf, delay_cs, spawned, outWritten,
                 exc>>

\* what follows a subprocess.run(..., check=True) of the pipeline
AfterRun(stage, rc, stderr, next) ==
  IF CheckRaises(rc)
  THEN pc' = "exit_with" /\ exc' = Some(CalledProcessError(stage, rc, stderr))
  ELSE pc' = next /\ exc' = exc

\* make_gif_im, lines 106-107: stage 1, ffmpeg writes the frames
Extract ==
  /\ pc = "extract"
  /\ \E rc \in {0, 1}, n \in 0..MaxFrames :
       \E stderr \in IF rc = 0 THEN {<<>>} ELSE StderrTexts :
         /\ spawned' = Append(spawned,
                              Cmd("extract", ffmpeg[1], in_path, vf, FramesPat,
                                  0, rc, stderr))
         /\ tdFiles' = tdFiles \cup {FrameFile(i) : i \in 1..n}
         /\ AfterRun("extract", rc, stderr, "palette")
  /\ UNCHANGED <<onPath, ffmpeg, val, dialogs, aborted, tries, in_path,
                 out_path, fps, max_w, im, vf, delay_cs, tdExists, tdCreated,
                 outWritten>>

\* make_gif_im, lines 110-119: stage 2, ffmpeg writes the palette
Palette ==
  /\ pc = "palette"
  /\ \E rc \in {0, 1}, wrote \in BOOLEAN :
       \E stderr \in IF rc = 0 THEN {<<>>} ELSE StderrTexts :
         /\ rc = 0 => wrote
         /\ spawned' = Append(spawned,
                              Cmd("palette", ffmpeg[1], in_path,
                                  vf \o <<",palettegen=stats_mode=full">>,
                                  PalettePath, 0, rc, stderr))
         /\ tdFiles' = IF wrote THEN tdFiles \cup {PaletteFile} ELSE tdFiles
         /\ AfterRun("palette", rc, stderr, "assemble")
  /\ UNCHANGED <<onPath, ffmpeg, val, dialogs, aborted, tries, in_path,
                 out_path, fps, max_w, im, vf, delay_cs, tdExists, tdCreated,
                 outWritten>>

\* make_gif_im, lines 124-129: stage 3, ImageMagick writes out_path
Assemble ==
  /\ pc = "assemble"
  /\ \E rc \in {0, 1}, wrote \in BOOLEAN :
       \E stderr \in IF rc = 0 THEN {<<>>} ELSE StderrTexts :
         /\ rc = 0 => wrote
         /\ spawned' = Append(spawned,
                              Cmd("assemble", im[1], FramesGlob, <<>>,
                                  out_path, delay_cs, rc, stderr))
         /\ outWritten' = wrote
         /\ AfterRun("assemble", rc, stderr, "exit_with")
  /\ UNCHANGED <<onPath, ffmpeg, val, dialogs, aborted, tries, in_path,
                 out_path, fps, max_w, im, vf, delay_cs, tdExists, tdFiles,
                 tdCreated>>

\* make_gif_im, lines 100/131: leaving the with-block, then returning to main
\* (normally, or with the exception still propagating)
ExitTempDir ==
  /\ pc = "exit_with"
  /\ IF CleanupOnExit(exc)
     THEN tdExists' = FALSE /\ tdFiles' = {}
     ELSE UNCHANGED <<tdExists, tdFiles>>
  /\ pc' = IF exc = None THEN "show_done" ELSE "except"
  /\ UNCHANGED <<onPath, ffmpeg, val, dialogs, aborted, tries, in_path,
                 out_path, fps, max_w, im, vf, delay_cs, tdCreated, spawned,
                 outWritten, exc>>

(* ---------------------------- main: reporting -------------------------- *)

\* main, line 203
ShowDone ==
  /\ pc = "show_done"
  /\ Show(Dialog("showinfo", "Done", <<"GIF saved:\n">> \o out_path))
  /\ pc' = "ask_open"
  /\ UNCHANGED <<onPath, ffmpeg, val, aborted, tries, in_path, out_path, fps,
                 max_w, im, vf, delay_cs, tdExists, tdFiles, tdCreated,
                 spawned, outWritten, exc>>

\* main, lines 207-208
AskOpenFolder ==
  /\ pc = "ask_open"
  /\ Show(Dialog("askyesno", "Open Folder?", <<"Open the output folder?">>))
  /\ \E yes \in BOOLEAN : pc' = IF yes THEN "open_folder" ELSE "end"
  /\ UNCHANGED <<onPath, ffmpeg, val, aborted, tries, in_path, out_path, fps,
                 max_w, im, vf, delay_cs, tdExists, tdFiles, tdCreated,
                 spawned, outWritten, exc>>

\* what follows an exception raised inside the inner try-block
AfterOpenError(e) ==
  IF InnerExceptCatches(e)
  THEN pc' = "end" /\ exc' = exc
  ELSE pc' = "except" /\ exc' = Some(e)

\* main, lines 209-216: the platform's file browser; os.startfile on nt,
\* otherwise subprocess.run without check=True
OpenFolder ==
  /\ pc = "open_folder"
  /\ \E platform \in {"nt", "darwin", "linux"},
        outcome \in {"ok", "nonzero", "raise"} :
       /\ platform = "nt" => outcome # "nonzero"
       /\ spawned' =
            IF platform = "nt" \/ outcome = "raise" THEN spawned
            ELSE Append(spawned,
                        Cmd("open",
                            IF platform = "darwin" THEN "open" ELSE "xdg-open",
                            Dirname(out_path), <<>>, <<>>, 0,
                            IF outcome = "ok" THEN 0 ELSE 1, <<>>))
       /\ IF outcome = "raise"
          THEN AfterOpenError(OSError(<<"cannot open the folder">>))
          ELSE pc' = "end" /\ exc' = exc
  /\ UNCHANGED <<onPath, ffmpeg, val, dialogs, aborted, tries, in_path,
                 out_path, fps, max_w, im, vf, delay_cs, tdExists, tdFiles,
                 tdCreated, outWritten>>

\* main, lines 218-222: both except clauses of the outer try
ShowError ==
  /\ pc = "except"
  /\ Show(Dialog("showerror", "Error",
                 <<"Conversion failed:\n">> \o ErrorMessage(exc[1])))
  /\ pc' = "end"
  /\ UNCHANGED <<onPath, ffmpeg, val, aborted, tries, in_path, out_path, fps,
                 max_w, im, vf, delay_cs, tdExists, tdFiles, tdCreated,
                 spawned, outWritten, exc>>

Next ==
  \/ ShowIntro
  \/ PickInput
  \/ ConfirmNotWebm
  \/ PickOutput
  \/ AskFps
  \/ AskWidth
  \/ ShowConverting
  \/ GetFfmpeg
  \/ FindIm
  \/ BuildArgs
  \/ EnterTempDir
  \/ Extract
  \/ Palette
  \/ Assemble
  \/ ExitTempDir
  \/ ShowDone
  \/ AskOpenFolder
  \/ OpenFolder
  \/ ShowError

Spec == Init /\ [][Next]_vars

(* ------------- make_gif_im's argument handling on its own -------------- *)

\* the states in which make_gif_im reaches line 80, for every fps that
\* ask_number can return and a few widths
InitArgs ==
  /\ onPath \in (SUBSET {"magick", "convert"}) \ {{}}
  /\ pc = "build"
  /\ dialogs =
       << Dialog("showinfo", "WEBM -> GIF",
                 <<"Select a .webm video to convert to GIF.">>),
          Dialog("askopenfilename", "Select a WEBM file", <<>>),
          Dialog("asksaveasfilename", "Save GIF as...", <<"clip", ".gif">>),
          Dialog("askstring", "Frames per Second", <<>>),
          Dialog("askstring", "Max Width (optional)", <<>>),
          Dialog("showinfo", "Converting",
                 <<"Conversion started. This may take a little while.">>) >>
  /\ aborted = "none"
  /\ val = NoAnswer
  /\ tries = 0
  /\ in_path = <<"/v/", "clip", ".webm">>
  /\ out_path = <<"/g/", "out", ".gif">>
  /\ fps \in {Some(f) : f \in FPS_MIN..FPS_MAX}
  /\ max_w \in {None, Some(WIDTH_MIN), Some(480), Some(WIDTH_MAX)}
  /\ ffmpeg = Some("ffmpeg")
  /\ im = FindImagemagick(onPath)
  /\ vf = <<>>
  /\ delay_cs = 0
  /\ tdExists = FALSE
  /\ tdFiles = {}
  /\ tdCreated = FALSE
  /\ spawned = <<>>
  /\ outWritten = FALSE
  /\ exc = None

NextArgs == BuildArgs

SpecArgs == InitArgs /\ [][NextArgs]_vars

(* ---------------------------- properties ------------------------------- *)

Shown(title) == \E i \in 1..Len(dialogs) : dialogs[i].title = title

TimesShown(title) ==
  Cardinality({i \in 1..Len(dialogs) : dialogs[i].title = title})

IsStage(c) == c.stage # "open"

\* the pipeline's invocations, in the order they were started
Runs == SelectSeq(spawned, IsStage)

StageFailed == \E i \in 1..Len(Runs) : Runs[i].rc # 0

FirstFailed ==
  Runs[CHOOSE i \in 1..Len(Runs) :
         Runs[i].rc # 0 /\ \A j \in 1..(i - 1) : Runs[j].rc = 0]

\* the text of the Error dialog after its "Conversion failed:" line
ErrorText ==
  Tail(dialogs[CHOOSE i \in 1..Len(dialogs) : dialogs[i].title = "Error"].text)

InMakeGif ==
  pc \in {"get_ffmpeg", "find_im", "build", "mkdtemp", "extract", "palette",
          "assemble", "exit_with"}

InWithBlock == pc \in {"extract", "palette", "assemble", "exit_with"}

\* C1: the stages are started in the order extract, palette, assemble; a
\* stage is started only when the stage before it exited with status zero,
\* so nothing is started after a stage that exited non-zero.
ThmC1 ==
  /\ Len(Runs) <= 3
  /\ \A i \in 1..Len(Runs) :
       /\ Runs[i].stage = <<"extract", "palette", "assemble">>[i]
       /\ i > 1 => Runs[i - 1].rc = 0
  /\ pc = "palette" => Len(Runs) = 1 /\ Runs[1].rc = 0
  /\ pc = "assemble" => Len(Runs) = 2 /\ Runs[2].rc = 0

WitC1 ==
  /\ pc = "end"
  /\ Len(Runs) = 2
  /\ Runs[1].rc = 0
  /\ Runs[2].rc # 0

\* C2: the temporary directory and its files exist only inside the
\* with-block of make_gif_im; whenever main shows Done or Error, and at any
\* point outside the block, the directory and every file in it are gone.
ThmC2 ==
  /\ ~InWithBlock => ~tdExists /\ tdFiles = {}
  /\ (Shown("Done") \/ Shown("Error")) => ~tdExists /\ tdFiles = {}
  /\ pc \in {"show_done", "except", "ask_open", "open_folder", "end"}
       => ~tdExists /\ tdFiles = {}

WitC2 ==
  /\ tdCreated
  /\ Shown("Error")
  /\ Len(Runs) = 2
  /\ ~tdExists

ImNotFound == RuntimeError(<<"ImageMagick not found.">>)

NeitherOnPath == onPath \cap {"magick", "convert"} = {}

\* what C3 says about the tool that is used
PreferredUsed ==
  /\ im # None /\ "magick" \in onPath => im = Some("magick")
  /\ im = Some("convert") => "magick" \notin onPath /\ "convert" \in onPath
  /\ \A i \in 1..Len(Runs) : Runs[i].stage = "assemble" => Runs[i].exe = im[1]

\* C3 as stated: with neither name on the search path, make_gif_im raises
\* the tool-not-found error, with no stage spawned and no temporary
\* directory created, and main shows it in the Error dialog.
OrigC3 ==
  /\ (NeitherOnPath /\ Shown("Converting") /\ pc \in {"except", "end"})
       => /\ exc = Some(ImNotFound)
          /\ spawned = <<>>
          /\ ~tdCreated
          /\ pc = "end" => Shown("Error") /\ ErrorText = ImNotFound.msg
  /\ PreferredUsed

\* C3, amended: with neither name on the search path, make_gif_im raises
\* before any stage is spawned and before a temporary directory is created,
\* and main shows the raised error in the Error dialog; the error is the
\* tool-not-found error whenever the ffmpeg lookup of line 73 succeeded, and
\* the error of that lookup otherwise.  The preferred name is used when it
\* is found, the legacy name only when the preferred one is absent.
ThmC3 ==
  /\ (NeitherOnPath /\ Shown("Converting") /\ pc \in {"except", "end"})
       => /\ exc # None
          /\ exc[1].type = "RuntimeError"
          /\ ffmpeg # None => exc = Some(ImNotFound)
          /\ ffmpeg = None => exc # Some(ImNotFound)
          /\ spawned = <<>>
          /\ ~tdCreated
          /\ pc = "end" =>
               /\ Shown("Error")
               /\ ~Shown("Done")
               /\ ErrorText = exc[1].msg
  /\ NeitherOnPath => im = None /\ pc \notin {"build", "mkdtemp"} /\ ~InWithBlock
  /\ PreferredUsed

WitC3 ==
  /\ NeitherOnPath
  /\ ffmpeg # None
  /\ pc = "end"
  /\ Shown("Error")
  /\ ErrorText = ImNotFound.msg

AllStagesOk ==
  /\ Len(Runs) = 3
  /\ \A i \in 1..3 : Runs[i].rc = 0

OutputOnlyByAssemble ==
  /\ outWritten => \E i \in 1..Len(Runs) : Runs[i].stage = "assemble"
  /\ (StageFailed /\ FirstFailed.stage \in {"extract", "palette"})
       => ~outWritten

\* the Error dialog carries the diagnostic of the first failed call
ShowsFirstFailure ==
  /\ StageFailed
  /\ ErrorText \in {Strip(FirstFailed.stderr),
                    CalledProcessErrorStr(FirstFailed.stage, FirstFailed.rc)}

\* C4 as stated: a run that reached the conversion ends in exactly one of
\* two ways: all three calls exited zero and Done is shown, or some call
\* failed and Error is shown with the first failed call's diagnostic.
OrigC4 ==
  /\ (pc = "end" /\ Shown("Converting")) =>
       \/ AllStagesOk /\ Shown("Done") /\ ~Shown("Error")
       \/ ShowsFirstFailure /\ Shown("Error") /\ ~Shown("Done")
  /\ Shown("Done") => ~StageFailed
  /\ OutputOnlyByAssemble

\* C4, amended: a run that reached the conversion ends in exactly one of
\* these ways: all three calls exited zero and Done is shown; or some call
\* failed and Error is shown with the text taken from the first failed call
\* (its stripped standard error or its exception message); or a tool lookup
\* failed before any call was made and Error is shown with that lookup's
\* message.  Done is never shown when a stage failed, and the output path
\* is written only by the assemble stage.
ThmC4 ==
  /\ (pc = "end" /\ Shown("Converting")) =>
       \/ AllStagesOk /\ Shown("Done") /\ ~Shown("Error")
       \/ ShowsFirstFailure /\ Shown("Error") /\ ~Shown("Done")
       \/ /\ Runs = <<>>
          /\ ~tdCreated
          /\ ffmpeg = None \/ im = None
          /\ Shown("Error")
          /\ ~Shown("Done")
          /\ ErrorText = exc[1].msg
          /\ ErrorText # <<>>
  /\ Shown("Done") => AllStagesOk
  /\ OutputOnlyByAssemble

WitC4 ==
  /\ pc = "end"
  /\ Shown("Error")
  /\ Len(Runs) = 3
  /\ Runs[3].rc # 0
  /\ ErrorText = <<"e", "r", "r">>

\* answers that are blank once the surrounding whitespace is dropped
BlankTexts == { <<>>, <<" ">> }

\* the answers that are integers in 1..60, with their values
FpsInRange ==
  { <<<<"1">>, 1>>, <<<<" ", "1", "5">>, 15>>, <<<<"6", "0", " ">>, 60>>,
    <<<<"3", "1">>, 31>> }

\* the answers that are integers in 32..4096, with their values
WidthInRange ==
  { <<<<"6", "0", " ">>, 60>>, <<<<"6", "1">>, 61>>,
    <<<<"4", "8", "0">>, 480>> }

LastDialog == dialogs[Len(dialogs)]

\* one pass of the fps prompt does what C5 says for the answer given
FpsPassOk ==
  pc = "ask_fps" =>
    /\ Len(dialogs') > Len(dialogs)
    /\ dialogs'[Len(dialogs) + 1].kind = "askstring"
    /\ (val'.cancelled \/ val'.text \in BlankTexts) =>
         /\ fps' = Some(15)
         /\ pc' = "ask_width"
         /\ Len(dialogs') = Len(dialogs) + 1
    /\ \A a \in FpsInRange :
         (~val'.cancelled /\ val'.text = a[1]) =>
           /\ fps' = Some(a[2])
           /\ pc' = "ask_width"
           /\ Len(dialogs') = Len(dialogs) + 1
    /\ ( /\ ~val'.cancelled
         /\ val'.text \notin BlankTexts
         /\ \A a \in FpsInRange : val'.text # a[1] ) =>
           /\ fps' = None
           /\ pc' = "ask_fps"
           /\ Len(dialogs') = Len(dialogs) + 2
           /\ dialogs'[Len(dialogs')].kind = "showerror"
           /\ dialogs'[Len(dialogs')].text # <<>>

FpsPassed ==
  /\ fps # None => fps[1] \in Int /\ fps[1] >= 1 /\ fps[1] <= 60
  /\ (InMakeGif \/ pc \in {"ask_width", "converting"}) => fps # None

\* C5: the fps handed to make_gif_im is always an integer in 1..60; a blank
\* or cancelled prompt yields 15, an in-range integer answer yields that
\* integer, and any other answer shows an error message and asks again.
ThmC5 == [] FpsPassed /\ [][FpsPassOk]_vars

WitC5 ==
  /\ pc = "ask_width"
  /\ fps = Some(60)
  /\ \E i \in 1..Len(dialogs) :
       dialogs[i].kind = "showerror" /\ dialogs[i].title = "Frames per Second"

Abs(x) == IF x < 0 THEN 0 - x ELSE x

\* C6: for every fps in 1..60 the frame delay is an integer >= 1 that is a
\* nearest integer to 100/fps; it is 7 at fps 15, 2 at fps 60, 100 at fps 1.
ThmC6 ==
  pc = "mkdtemp" =>
    /\ fps[1] \in 1..60
    /\ delay_cs \in Int
    /\ delay_cs >= 1
    /\ 2 * Abs(delay_cs * fps[1] - 100) <= fps[1]
    /\ fps[1] = 15 => delay_cs = 7
    /\ fps[1] = 60 => delay_cs = 2
    /\ fps[1] = 1 => delay_cs = 100

WitC6 ==
  /\ pc = "mkdtemp"
  /\ fps = Some(15)
  /\ delay_cs = 7

SettingsTitles ==
  {"Frames per Second", "Max Width (optional)", "Converting", "Done",
   "Error", "Open Folder?"}

\* C7: after a cancelled input chooser, a declined confirmation or a
\* cancelled output chooser, main has returned: the chooser or confirmation
\* is the last dialog of the run, no process was spawned and no temporary
\* directory was created.
ThmC7 ==
  /\ (in_path = <<>> /\ pc \notin {"intro", "pick_input"}) => aborted = "input"
  /\ (out_path = <<>> /\ in_path # <<>> /\ pc \notin {"pick_output", "confirm"})
       => aborted \in {"confirm", "output"}
  /\ aborted # "none" =>
       /\ pc = "end"
       /\ spawned = <<>>
       /\ ~tdCreated
       /\ ~tdExists
       /\ ~outWritten
       /\ \A i \in 1..Len(dialogs) : dialogs[i].title \notin SettingsTitles
       /\ dialogs[1].title = "WEBM -> GIF"
       /\ aborted = "input" =>
            Len(dialogs) = 2 /\ LastDialog.kind = "askopenfilename"
       /\ aborted = "confirm" =>
            Len(dialogs) = 3 /\ LastDialog.title = "Continue?"
       /\ aborted = "output" =>
            Len(dialogs) \in {3, 4} /\ LastDialog.kind = "asksaveasfilename"

WitC7 ==
  /\ aborted = "output"
  /\ pc = "end"
  /\ Len(dialogs) = 4

\* C8 as stated: the Error dialog shows the first failed stage's standard
\* error when that stage produced text, the exception's message when there
\* is no such text, and never an empty diagnostic.
OrigC8 ==
  Shown("Error") =>
    /\ ErrorText # <<>>
    /\ (StageFailed /\ Strip(FirstFailed.stderr) # <<>>)
         => ErrorText = Strip(FirstFailed.stderr)
    /\ (~StageFailed \/ Strip(FirstFailed.stderr) = <<>>)
         => ErrorText = exc[1].msg

\* C9: the chain is the frame-rate clause, then the resize clause exactly
\* when a width was given (never after a blank or cancelled width prompt,
\* and a given width is in 32..4096), then the pixel-format clause; stage 2
\* gets the chain of stage 1 followed by the palette clause, for the same
\* input path.
ThmC9 ==
  /\ max_w # None => max_w[1] \in 32..4096
  /\ (pc = "converting" /\ (val.cancelled \/ val.text \in BlankTexts))
       => max_w = None
  /\ \A a \in WidthInRange :
       (pc = "converting" /\ ~val.cancelled /\ val.text = a[1])
         => max_w = Some(a[2])
  /\ \A i \in 1..Len(Runs) :
       /\ Runs[i].stage = "extract" =>
            /\ Runs[i].input = in_path
            /\ Runs[i].vf =
                 <<"fps=">> \o PyStr(fps[1])
                   \o (IF max_w # None
                       THEN <<",", "scale=if(gt(iw\\,">> \o PyStr(max_w[1])
                              \o <<"\\,">> \o PyStr(max_w[1])
                              \o <<"\\,iw):-1:flags=lanczos">>
                       ELSE <<>>)
                   \o <<",", "format=rgba">>
       /\ Runs[i].stage = "palette" =>
            /\ Runs[i].input = Runs[1].input
            /\ Runs[i].exe = Runs[1].exe
            /\ Runs[i].vf = Runs[1].vf \o <<",palettegen=stats_mode=full">>

WitC9 ==
  /\ Len(Runs) >= 2
  /\ Runs[2].stage = "palette"
  /\ max_w = Some(480)

\* C10: Done and Error are never both shown in a run; whatever the
\* open-folder step does, a run that reached the conversion ends having
\* shown exactly one of them, once.
ThmC10 ==
  /\ ~(Shown("Done") /\ Shown("Error"))
  /\ TimesShown("Done") + TimesShown("Error") <= 1
  /\ (pc = "end" /\ Shown("Converting"))
       => TimesShown("Done") + TimesShown("Error") = 1
  /\ pc \in {"ask_open", "open_folder"} => Shown("Done") /\ exc = None

WitC10 ==
  /\ pc = "end"
  /\ Shown("Done")
  /\ \E i \in 1..Len(spawned) : spawned[i].stage = "open" /\ spawned[i].rc # 0

====
